---- MODULE Spec2Model ----
(***************************************************************************)
(* The genetic-algorithm driver (GeneticAlgorithm.run and its steps) and   *)
(* the collision engine (Environment.collides) of the repository, as two   *)
(* state machines sharing one module.                                      *)
(*                                                                         *)
(* Numbers.  Fitness is a real in the code; here it is an integer count of *)
(* units of 1e-8, the value optimisation_evaluation substitutes for a zero *)
(* altitude, so altitude a is a * FitScale and the substitute is 1.        *)
(* Percentages are rationals <<num, den>>.  Points of the plane have       *)
(* integer coordinates, intersection points are rationals <<xn, yn, d>>.   *)
(***************************************************************************)
EXTENDS Integers, Sequences, FiniteSets, TLC

N_GENERATION == 2
FitScale == 100000000

Sizes == {2, 3}
ElitismChoices == {<<0, 1>>, <<1, 3>>, <<1, 2>>, <<2, 3>>, <<1, 1>>}
SelectChoices == {<<0, 1>>, <<1, 3>>}
CrossoverChoices == {<<0, 1>>, <<1, 3>>, <<2, 3>>}

\* ELITISM + SELECT + CROSSOVER_MUTATION as one rational <<num, den>>.
PercentageSum(e, s, c) ==
    <<e[1] * s[2] * c[2] + s[1] * e[2] * c[2] + c[1] * e[2] * s[2],
      e[2] * s[2] * c[2]>>

\* The configurations explored, <<ELITISM, SELECT, CROSSOVER_MUTATION>>:
\* those whose percentages sum to at most 1 and those exceeding 1 by at most
\* a third.
Configurations ==
    {cfg \in ElitismChoices \X SelectChoices \X CrossoverChoices :
        LET sum == PercentageSum(cfg[1], cfg[2], cfg[3])
        IN  3 * sum[1] <= 4 * sum[2]}

Functions == {"sphere", "linear"}
Genes == {0, 1}

VARIABLES
    N_INDIVIDUALS, ELITISM_PERCENTAGE, SELECT_PERCENTAGE,
    CROSSOVER_MUTATION_PERCENTAGE, OPTI_FUNC,
    emergency_break, generation, populations, display_data,
    population, next_population, loop_generation, genomes, pc,
    fitness_writes, flag_reads, stopped_in, stopped_at, evaluated, completed,
    ROBOT_RADIUS, environment, robot_current_center, robot_next_center,
    collisions, returned

gaVars == <<N_INDIVIDUALS, ELITISM_PERCENTAGE, SELECT_PERCENTAGE,
            CROSSOVER_MUTATION_PERCENTAGE, OPTI_FUNC,
            emergency_break, generation, populations, display_data,
            population, next_population, loop_generation, genomes, pc,
            fitness_writes, flag_reads, stopped_in, stopped_at, evaluated, completed>>

envVars == <<ROBOT_RADIUS, environment, robot_current_center, robot_next_center,
             collisions, returned>>

vars == <<gaVars, envVars>>

config == <<N_INDIVIDUALS, ELITISM_PERCENTAGE, SELECT_PERCENTAGE,
            CROSSOVER_MUTATION_PERCENTAGE, OPTI_FUNC>>

(***************************************************************************)
(* Arithmetic helpers                                                      *)
(***************************************************************************)
Abs(x) == IF x < 0 THEN -x ELSE x

Sign(x) == IF x < 0 THEN -1 ELSE IF x > 0 THEN 1 ELSE 0

RECURSIVE GCD(_, _)
GCD(a, b) == IF b = 0 THEN Abs(a) ELSE GCD(b, a % b)

\* A rational <<n, d>> in lowest terms with d > 0.
Rat(n, d) ==
    LET g == GCD(Abs(n), Abs(d))
        s == IF d < 0 THEN -1 ELSE 1
    IN  <<(s * n) \div g, (s * d) \div g>>

RatAdd(a, b) == Rat(a[1] * b[2] + b[1] * a[2], a[2] * b[2])

RECURSIVE SumSeq(_)
SumSeq(s) == IF s = <<>> THEN 0 ELSE Head(s) + SumSeq(Tail(s))

RECURSIVE MinSeq(_)
MinSeq(s) ==
    IF Len(s) = 1 THEN s[1]
    ELSE LET m == MinSeq(Tail(s)) IN IF s[1] <= m THEN s[1] ELSE m

Range(s) == {s[i] : i \in DOMAIN s}

(***************************************************************************)
(* Genome, decoder and cost function                                       *)
(***************************************************************************)
\* Genome(): a fresh genome, not yet evaluated.
Genome(genes) == [genes |-> genes, fitness |-> 0, evaluated |-> FALSE]

\* optimization_decoder: the coordinate a genome encodes.
optimization_decoder(individual) == individual.genes - 1

\* OPTI_FUNC(coordinates): the altitude (cost) at the coordinate.
Altitude(func, coordinates) ==
    IF func = "sphere" THEN coordinates * coordinates ELSE coordinates

\* The value handed to set_fitness, in units of 1e-8.
ClampedFitness(altitude) == IF altitude = 0 THEN 1 ELSE altitude * FitScale

\* int(N_INDIVIDUALS * PERCENTAGE)
IntOfProduct(n, pct) == (n * pct[1]) \div pct[2]

EliteCountCeil(n, pct) == (n * pct[1] + pct[2] - 1) \div pct[2]

EliteCount(n, pct) == IntOfProduct(n, pct)

SelectCount(n, pct) == IntOfProduct(n, pct)

CrossoverCount(n, pct) == IntOfProduct(n, pct)

NeedsRefillInclusive(len, n) == len <= n

\* The loop condition of generate_new.
NeedsRefill(len, n) == len < n

IgnoreStop(flag) == FALSE

\* The test of the stop flag at the top of a generation.
StopRequested(flag) == flag

(***************************************************************************)
(* optimisation_evaluation                                                 *)
(***************************************************************************)
set_fitness(h, id, value) ==
    [h EXCEPT ![id] = [@ EXCEPT !.fitness = value, !.evaluated = TRUE]]

\* The loop over population.individuals, entry i onwards: the genome store
\* after the loop, and how often each genome's fitness was written.
RECURSIVE EvaluationLoop(_, _, _, _, _)
EvaluationLoop(h, writes, individuals, i, func) ==
    IF i > Len(individuals) THEN [genomes |-> h, writes |-> writes]
    ELSE LET id == individuals[i]
             coordinates == optimization_decoder(h[id])
             altitude == Altitude(func, coordinates)
         IN  EvaluationLoop(set_fitness(h, id, ClampedFitness(altitude)),
                            [writes EXCEPT ![id] = @ + 1],
                            individuals, i + 1, func)

(***************************************************************************)
(* update_data                                                             *)
(***************************************************************************)
FitnessOf(h, individuals) == [i \in DOMAIN individuals |-> h[individuals[i]].fitness]

\* np.abs(np.diff(xs))
AbsDiff(xs) == [i \in 1..(Len(xs) - 1) |-> Abs(xs[i + 1] - xs[i])]

\* np.mean as the pair <<sum, count>>; count 0 is the mean of nothing (nan).
Mean(xs) == <<SumSeq(xs), Len(xs)>>

DisplayData(gen, individual_fitness) ==
    [generation |-> gen,
     avg_fitness |-> Mean(individual_fitness),
     best_fitness |-> MinSeq(individual_fitness),
     diversity |-> Mean(AbsDiff(individual_fitness))]

(***************************************************************************)
(* selection                                                               *)
(***************************************************************************)
\* sorted(..., reverse=True) is stable: equal keys keep their order.
RECURSIVE InsertDescending(_, _, _)
InsertDescending(sorted, id, h) ==
    IF sorted = <<>> THEN <<id>>
    ELSE IF h[Head(sorted)].fitness >= h[id].fitness
         THEN <<Head(sorted)>> \o InsertDescending(Tail(sorted), id, h)
         ELSE <<id>> \o sorted

RECURSIVE OrderedByFitness(_, _)
OrderedByFitness(individuals, h) ==
    IF individuals = <<>> THEN <<>>
    ELSE InsertDescending(
             OrderedByFitness(SubSeq(individuals, 1, Len(individuals) - 1), h),
             individuals[Len(individuals)], h)

\* ordered_by_fitness[-i] for i = 1..count
Elite(ordered, count) == [i \in 1..count |-> ordered[Len(ordered) - i + 1]]

\* np.reciprocal(fitness), each entry a rational in units of 1e8.
Reciprocal(fitness) == [i \in DOMAIN fitness |-> Rat(FitScale, fitness[i])]

RECURSIVE RatSum(_)
RatSum(s) == IF s = <<>> THEN <<0, 1>> ELSE RatAdd(Head(s), RatSum(Tail(s)))

\* The sign of each normalised weight; 2 stands for a division by zero.
WeightSigns(fitness) ==
    LET inv == Reciprocal(fitness)
        total == RatSum(inv)
    IN  [i \in DOMAIN fitness |->
            IF total[1] = 0 THEN 2 ELSE Sign(inv[i][1]) * Sign(total[1])]

\* np.random.choice(a, p) raises unless every probability is non-negative.
ChoiceRaises(signs) == \E i \in DOMAIN signs : signs[i] \in {-1, 2}

(***************************************************************************)
(* crossover_mutation and generate_new: every outcome of the random draws  *)
(***************************************************************************)
\* two_point_crossover on one gene: the child takes it from either parent.
crossover_func(parent1, parent2, first) ==
    Genome(IF first THEN parent1.genes ELSE parent2.genes)

\* Mutations.gaussian: the gene is perturbed (noise 1) or kept (noise 0).
mutation(child, noise) == Genome((child.genes + noise) % Cardinality(Genes))

Children(pool, h) ==
    {mutation(crossover_func(h[p1], h[p2], first), noise) :
        <<p1, p2>> \in Range(pool) \X Range(pool),
        <<first, noise>> \in BOOLEAN \X {0, 1}}

\* The states after the remaining `left` iterations of crossover_mutation;
\* random.sample raises on an empty pool.
RECURSIVE CrossoverOutcomes(_, _, _)
CrossoverOutcomes(pool, h, left) ==
    IF left = 0 THEN {[pool |-> pool, genomes |-> h, raised |-> FALSE]}
    ELSE IF pool = <<>> THEN {[pool |-> pool, genomes |-> h, raised |-> TRUE]}
    ELSE UNION {CrossoverOutcomes(Append(pool, Len(h) + 1), Append(h, child), left - 1) :
                    child \in Children(pool, h)}

RECURSIVE GenerateNewOutcomes(_, _, _)
GenerateNewOutcomes(pool, h, n) ==
    IF NeedsRefill(Len(pool), n)
    THEN UNION {GenerateNewOutcomes(Append(pool, Len(h) + 1), Append(h, Genome(g)), n) :
                    g \in Genes}
    ELSE {[pool |-> pool, genomes |-> h]}

(***************************************************************************)
(* Geometry (MathUtils) and Line                                           *)
(***************************************************************************)
EpsilonInverse == 1000

XS == {0, 50, 100}
YS == {-1, 0, 1}
Points == XS \X YS
Radii == {1, 2, 60}

Sub(a, b) == <<a[1] - b[1], a[2] - b[2]>>

Dot(a, b) == a[1] * b[1] + a[2] * b[2]

Cross(a, b) == a[1] * b[2] - a[2] * b[1]

\* No intersection.
None == <<>>

\* Line: a wall from start to end, its collision segment stretched by
\* `stretch` wall lengths at both ends, vec its direction vector.
Line(start, end, stretch) ==
    LET d == Sub(end, start)
    IN  [start |-> start, end |-> end,
         col_start |-> <<start[1] - stretch * d[1], start[2] - stretch * d[2]>>,
         col_end |-> <<end[1] + stretch * d[1], end[2] + stretch * d[2]>>,
         vec |-> d]

\* distance_point_to_point, squared.
distance_point_to_point(a, b) == Dot(Sub(a, b), Sub(a, b))

\* distance_point_to_point from a to the rational point x = <<xn, yn, d>>,
\* squared, as the rational <<n, d * d>>.
distance_to_intersection(a, x) ==
    LET dx == x[1] - a[1] * x[3]
        dy == x[2] - a[2] * x[3]
    IN  <<dx * dx + dy * dy, x[3] * x[3]>>

\* distance_point_to_line_seg, squared, as a rational: the projection
\* parameter is clamped to [0, 1].
distance_point_to_line_seg(p, s, e) ==
    LET d == Sub(e, s)
        len2 == Dot(d, d)
        along == Dot(Sub(p, s), d)
    IN  IF len2 = 0 \/ along <= 0 THEN <<distance_point_to_point(p, s), 1>>
        ELSE IF along >= len2 THEN <<distance_point_to_point(p, e), 1>>
        ELSE <<distance_point_to_point(p, s) * len2 - along * along, len2>>

\* line_seg_intersection: the point where [p1, p2] meets [s, e], None when
\* the determinant of the two directions is below epsilon or the point is
\* outside either segment.
line_seg_intersection(p1, p2, s, e) ==
    LET r == Sub(p2, p1)
        q == Sub(e, s)
        det == Cross(r, q)
    IN  IF Abs(det) * EpsilonInverse < 1 THEN None
        ELSE LET t == Rat(Cross(Sub(s, p1), q), det)
                 u == Rat(Cross(Sub(s, p1), r), det)
             IN  IF 0 <= t[1] /\ t[1] <= t[2] /\ 0 <= u[1] /\ u[1] <= u[2]
                 THEN <<p1[1] * t[2] + t[1] * r[1], p1[2] * t[2] + t[1] * r[2], t[2]>>
                 ELSE None

\* outside_of_line: the endpoint beyond which p projects, None within the span.
outside_of_line(p, s, e) ==
    LET d == Sub(e, s)
        along == Dot(Sub(p, s), d)
    IN  IF along < 0 THEN s ELSE IF along > Dot(d, d) THEN e ELSE None

(***************************************************************************)
(* Environment.collides                                                    *)
(***************************************************************************)
JumpedThroughInclusive(current, next, extend_intersection) ==
    /\ extend_intersection # None
    /\ LET d == distance_to_intersection(current, extend_intersection)
       IN  distance_point_to_point(current, next) * d[2] >= d[1]

\* jumped_through: the step is longer than the way to the intersection
\* with the collision segment.
JumpedThrough(current, next, extend_intersection) ==
    /\ extend_intersection # None
    /\ LET d == distance_to_intersection(current, extend_intersection)
       IN  distance_point_to_point(current, next) * d[2] > d[1]

\* The test that skips a wall: only its collision segment is crossed and
\* |dot(current - next, line.vec)| < EPSILON.
Skipped(current, next, line, extend_intersection, true_intersection) ==
    /\ extend_intersection # None
    /\ true_intersection = None
    /\ Abs(Dot(Sub(current, next), line.vec)) * EpsilonInverse < 1

WithinRadiusInclusive(radius, dist2) == dist2[1] <= radius * radius * dist2[2]

\* ROBOT_RADIUS - distance_to_line > EPSILON, for the squared distance
\* dist2 = <<n, d>>: with e = EpsilonInverse this is
\* (radius^2 * d - n) * e^2 > (2 * radius * e - 1) * d.
WithinRadius(radius, dist2) ==
    /\ radius * EpsilonInverse > 1
    /\ radius * radius * dist2[2] - dist2[1] >
           ((2 * radius * EpsilonInverse - 1) * dist2[2])
               \div (EpsilonInverse * EpsilonInverse)

Collision(line, outside, true_intersection, extend_intersection, jumped_through, distance) ==
    [line |-> line, outside_of_line |-> outside,
     true_intersection |-> true_intersection,
     extend_intersection |-> extend_intersection,
     jumped_through |-> jumped_through, distance |-> distance]

\* One pass of the loop body: the events the wall `line` adds.
ForLine(line, current, next, radius) ==
    LET distance_to_line == distance_point_to_line_seg(next, line.start, line.end)
        extend_intersection ==
            line_seg_intersection(current, next, line.col_start, line.col_end)
        true_intersection == line_seg_intersection(current, next, line.start, line.end)
        jumped_through == JumpedThrough(current, next, extend_intersection)
    IN  IF Skipped(current, next, line, extend_intersection, true_intersection)
        THEN <<>>
        ELSE IF WithinRadius(radius, distance_to_line) \/ jumped_through
        THEN <<Collision(line, outside_of_line(current, line.start, line.end),
                         true_intersection, extend_intersection, jumped_through,
                         distance_to_line)>>
        ELSE <<>>

RECURSIVE collides(_, _, _, _)
collides(map, current, next, radius) ==
    IF map = <<>> THEN <<>>
    ELSE ForLine(Head(map), current, next, radius)
             \o collides(Tail(map), current, next, radius)

\* The thin wall (50,-1)-(50,1) whose collision segment is the wall itself.
ThinWall == Line(<<50, -1>>, <<50, 1>>, 0)

\* Rooms of one wall, or of one wall followed by the thin wall.
Rooms ==
    LET walls == {Line(s, e, k) : <<s, e>> \in Points \X Points, k \in {0, 1}}
    IN  {<<w>> : w \in walls} \cup {<<w, ThinWall>> : w \in walls}

EnvInit ==
    /\ ROBOT_RADIUS \in Radii
    /\ environment \in Rooms
    /\ robot_current_center \in Points
    /\ robot_next_center \in Points
    /\ collisions = <<>>
    /\ returned = FALSE

\* The environment before any call of collides.
EnvIdle ==
    /\ ROBOT_RADIUS = 1
    /\ environment = <<>>
    /\ robot_current_center = <<0, 0>>
    /\ robot_next_center = <<0, 0>>
    /\ collisions = <<>>
    /\ returned = FALSE

(***************************************************************************)
(* GeneticAlgorithm.__init__ and the first line of run                     *)
(***************************************************************************)
NoData == [generation |-> 0, avg_fitness |-> <<0, 1>>, best_fitness |-> 0,
           diversity |-> <<0, 1>>]

GAInit ==
    /\ N_INDIVIDUALS \in Sizes
    /\ \E cfg \in Configurations :
           /\ ELITISM_PERCENTAGE = cfg[1]
           /\ SELECT_PERCENTAGE = cfg[2]
           /\ CROSSOVER_MUTATION_PERCENTAGE = cfg[3]
    /\ OPTI_FUNC \in Functions
    /\ emergency_break = FALSE
    /\ generation = 0
    /\ populations = <<>>
    /\ display_data = NoData
    /\ \E genes \in [1..N_INDIVIDUALS -> Genes] :
           genomes = [i \in 1..N_INDIVIDUALS |-> Genome(genes[i])]
    /\ population = [i \in 1..N_INDIVIDUALS |-> i]
    /\ next_population = <<>>
    /\ loop_generation = 0
    /\ pc = "loop"
    /\ fitness_writes = <<>>
    /\ flag_reads = 0
    /\ stopped_in = -1
    /\ stopped_at = "never"
    /\ evaluated = {}
    /\ completed = 0

(***************************************************************************)
(* run, one action per statement of the loop body                          *)
(***************************************************************************)
\* range(1, N_GENERATION + 1) is exhausted.
LoopExhausted ==
    /\ pc = "loop"
    /\ loop_generation = N_GENERATION
    /\ pc' = "finish"
    /\ UNCHANGED <<envVars, config, emergency_break, generation, populations, display_data,
                   population, next_population, loop_generation, genomes,
                   fitness_writes, flag_reads, stopped_in, stopped_at, evaluated, completed>>

\* if self.emergency_break: break
BreakOnStop ==
    /\ pc = "loop"
    /\ loop_generation < N_GENERATION
    /\ StopRequested(emergency_break)
    /\ flag_reads' = flag_reads + 1
    /\ pc' = "finish"
    /\ UNCHANGED <<envVars, config, emergency_break, generation, populations, display_data,
                   population, next_population, loop_generation, genomes,
                   fitness_writes, stopped_in, stopped_at, evaluated, completed>>

\* self.generation = generation; self.populations.append(population)
BeginGeneration ==
    /\ pc = "loop"
    /\ loop_generation < N_GENERATION
    /\ ~StopRequested(emergency_break)
    /\ flag_reads' = flag_reads + 1
    /\ loop_generation' = loop_generation + 1
    /\ generation' = loop_generation + 1
    /\ populations' = Append(populations, population)
    /\ pc' = "evaluation"
    /\ UNCHANGED <<envVars, config, emergency_break, display_data, population,
                   next_population, genomes, fitness_writes, stopped_in,
                   stopped_at, evaluated, completed>>

Evaluation ==
    /\ pc = "evaluation"
    /\ LET r == EvaluationLoop(genomes, [id \in DOMAIN genomes |-> 0],
                               population, 1, OPTI_FUNC)
       IN  /\ genomes' = r.genomes
           /\ fitness_writes' = r.writes
    /\ evaluated' = evaluated \cup {generation}
    /\ pc' = "update_data"
    /\ UNCHANGED <<envVars, config, emergency_break, generation, populations, display_data,
                   population, next_population, loop_generation, flag_reads,
                   stopped_in, stopped_at, completed>>

UpdateData ==
    /\ pc = "update_data"
    /\ display_data' = DisplayData(loop_generation, FitnessOf(genomes, population))
    /\ pc' = "selection"
    /\ UNCHANGED <<envVars, config, emergency_break, generation, populations, population,
                   next_population, loop_generation, genomes, fitness_writes,
                   flag_reads, stopped_in, stopped_at, evaluated, completed>>

Selection ==
    /\ pc = "selection"
    /\ LET ordered_by_fitness == OrderedByFitness(populations[Len(populations)], genomes)
           fitness == FitnessOf(genomes, ordered_by_fitness)
           elite == Elite(ordered_by_fitness, EliteCount(N_INDIVIDUALS, ELITISM_PERCENTAGE))
           draws == SelectCount(N_INDIVIDUALS, SELECT_PERCENTAGE)
       IN  IF draws > 0 /\ ChoiceRaises(WeightSigns(fitness))
           THEN /\ pc' = "raised"
                /\ UNCHANGED next_population
           ELSE /\ \E choice \in [1..draws -> DOMAIN ordered_by_fitness] :
                       next_population' =
                           elite \o [i \in 1..draws |-> ordered_by_fitness[choice[i]]]
                /\ pc' = "crossover_mutation"
    /\ UNCHANGED <<envVars, config, emergency_break, generation, populations, display_data,
                   population, loop_generation, genomes, fitness_writes,
                   flag_reads, stopped_in, stopped_at, evaluated, completed>>

CrossoverMutation ==
    /\ pc = "crossover_mutation"
    /\ \E r \in CrossoverOutcomes(next_population, genomes,
                    CrossoverCount(N_INDIVIDUALS, CROSSOVER_MUTATION_PERCENTAGE)) :
           /\ next_population' = r.pool
           /\ genomes' = r.genomes
           /\ pc' = IF r.raised THEN "raised" ELSE "generate_new"
    /\ UNCHANGED <<envVars, config, emergency_break, generation, populations, display_data,
                   population, loop_generation, fitness_writes, flag_reads,
                   stopped_in, stopped_at, evaluated, completed>>

GenerateNew ==
    /\ pc = "generate_new"
    /\ \E r \in GenerateNewOutcomes(next_population, genomes, N_INDIVIDUALS) :
           /\ next_population' = r.pool
           /\ genomes' = r.genomes
    /\ pc' = "wrap"
    /\ UNCHANGED <<envVars, config, emergency_break, generation, populations, display_data,
                   population, loop_generation, fitness_writes, flag_reads,
                   stopped_in, stopped_at, evaluated, completed>>

\* population = Population(next_population)
WrapPopulation ==
    /\ pc = "wrap"
    /\ population' = next_population
    /\ completed' = completed + 1
    /\ pc' = "loop"
    /\ UNCHANGED <<envVars, config, emergency_break, generation, populations, display_data,
                   next_population, loop_generation, genomes, fitness_writes,
                   flag_reads, stopped_in, stopped_at, evaluated>>

\* self.data_manager.stop() and the visualisation after the loop
Finish ==
    /\ pc = "finish"
    /\ pc' = "done"
    /\ UNCHANGED <<envVars, config, emergency_break, generation, populations, display_data,
                   population, next_population, loop_generation, genomes,
                   fitness_writes, flag_reads, stopped_in, stopped_at, evaluated, completed>>

\* stop(), called by the simulator's stop callback or any other holder of
\* the object, at any moment of the run.
Stop ==
    /\ pc \notin {"done", "raised"}
    /\ emergency_break' = TRUE
    /\ stopped_in' = IF stopped_in = -1 THEN loop_generation ELSE stopped_in
    /\ stopped_at' = IF stopped_in # -1 THEN stopped_at
                     ELSE IF pc \in {"loop", "finish"} THEN "between" ELSE "within"
    /\ UNCHANGED <<envVars, config, generation, populations, display_data, population,
                   next_population, loop_generation, genomes, pc, fitness_writes,
                   flag_reads, evaluated, completed>>

Next ==
    \/ LoopExhausted
    \/ BreakOnStop
    \/ BeginGeneration
    \/ Evaluation
    \/ UpdateData
    \/ Selection
    \/ CrossoverMutation
    \/ GenerateNew
    \/ WrapPopulation
    \/ Finish
    \/ Stop

Init == GAInit /\ EnvIdle

Spec == Init /\ [][Next]_vars

(***************************************************************************)
(* Environment.collides applied to one motion step                         *)
(***************************************************************************)
\* The driver before run() is called, with one fixed configuration.
GAIdle ==
    /\ N_INDIVIDUALS = 2
    /\ ELITISM_PERCENTAGE = <<0, 1>>
    /\ SELECT_PERCENTAGE = <<0, 1>>
    /\ CROSSOVER_MUTATION_PERCENTAGE = <<0, 1>>
    /\ OPTI_FUNC = "sphere"
    /\ emergency_break = FALSE
    /\ generation = 0
    /\ populations = <<>>
    /\ display_data = NoData
    /\ genomes = <<>>
    /\ population = <<>>
    /\ next_population = <<>>
    /\ loop_generation = 0
    /\ pc = "idle"
    /\ fitness_writes = <<>>
    /\ flag_reads = 0
    /\ stopped_in = -1
    /\ stopped_at = "never"
    /\ evaluated = {}
    /\ completed = 0

InitEnv == EnvInit /\ GAIdle

Collides ==
    /\ ~returned
    /\ collisions' = collides(environment, robot_current_center, robot_next_center,
                              ROBOT_RADIUS)
    /\ returned' = TRUE
    /\ UNCHANGED <<gaVars, ROBOT_RADIUS, environment, robot_current_center,
                   robot_next_center>>

NextEnv == Collides

SpecEnv == InitEnv /\ [][NextEnv]_vars

(***************************************************************************)
(* Properties of the genetic-algorithm driver                              *)
(***************************************************************************)
ValidPercentages ==
    LET sum == PercentageSum(ELITISM_PERCENTAGE, SELECT_PERCENTAGE,
                             CROSSOVER_MUTATION_PERCENTAGE)
    IN  sum[1] <= sum[2]

\* The population selection() reads.
Evaluated == populations[Len(populations)]

Floor(n, pct) == (n * pct[1]) \div pct[2]

Ceiling(n, pct) == -((-(n * pct[1])) \div pct[2])

\* C1: when the percentages sum to at most 1, the population handed to
\* evaluation() holds exactly N_INDIVIDUALS genomes, and so does the pool
\* that is wrapped into the next Population.
C1_PopulationSize ==
    ValidPercentages =>
        /\ pc = "evaluation" => Len(population) = N_INDIVIDUALS
        /\ pc = "wrap" => Len(next_population) = N_INDIVIDUALS

\* A second generation is about to be evaluated, its population made of
\* survivors and of genomes created after the first one.
C1_Witness ==
    /\ ValidPercentages
    /\ pc = "evaluation"
    /\ generation = 2
    /\ Len(population) = N_INDIVIDUALS
    /\ \E i \in DOMAIN population : population[i] > N_INDIVIDUALS
    /\ \E i \in DOMAIN population : population[i] <= N_INDIVIDUALS

\* C2 as stated: the pool selection() returns holds
\* ceil(N * ELITISM_PERCENTAGE) + floor(N * SELECT_PERCENTAGE) genomes.
C2_PoolSizeRoundedUp ==
    pc = "crossover_mutation" =>
        Len(next_population) = Ceiling(N_INDIVIDUALS, ELITISM_PERCENTAGE)
                               + Floor(N_INDIVIDUALS, SELECT_PERCENTAGE)

\* C2 as amended: the pool selection() returns holds
\* floor(N * ELITISM_PERCENTAGE) + floor(N * SELECT_PERCENTAGE) genomes.
C2_PoolSizeRoundedDown ==
    pc = "crossover_mutation" =>
        Len(next_population) = Floor(N_INDIVIDUALS, ELITISM_PERCENTAGE)
                               + Floor(N_INDIVIDUALS, SELECT_PERCENTAGE)

\* selection() has returned elites and a roulette draw, and
\* N * ELITISM_PERCENTAGE is not a whole number.
C2_Witness ==
    /\ pc = "crossover_mutation"
    /\ (N_INDIVIDUALS * ELITISM_PERCENTAGE[1]) % ELITISM_PERCENTAGE[2] # 0
    /\ Floor(N_INDIVIDUALS, ELITISM_PERCENTAGE) > 0
    /\ Len(next_population) > Floor(N_INDIVIDUALS, ELITISM_PERCENTAGE)

\* C3 (for percentages summing to at most 1): the first elite_count entries
\* of the pool selection() returns are distinct genomes of the evaluated
\* population, evaluated, each with a fitness no greater than that of any
\* genome of the population outside the elite; the other entries are
\* genomes of that population as well.
C3_ElitesDistinctAndBest ==
    (ValidPercentages /\ pc = "crossover_mutation") =>
        LET pool == next_population
            elite_count == Floor(N_INDIVIDUALS, ELITISM_PERCENTAGE)
            elites == {pool[i] : i \in 1..elite_count}
        IN  /\ \A i, j \in 1..elite_count : i # j => pool[i] # pool[j]
            /\ \A i \in DOMAIN pool : pool[i] \in Range(Evaluated)
            /\ \A e \in elites :
                   /\ genomes[e].evaluated
                   /\ \A g \in Range(Evaluated) \ elites :
                          genomes[e].fitness <= genomes[g].fitness

\* C5 (for percentages summing to at most 1): when selection() runs, every
\* genome of the evaluated population has a strictly positive fitness.
C5_FitnessPositive ==
    (ValidPercentages /\ pc = "selection") =>
        \A i \in DOMAIN Evaluated : genomes[Evaluated[i]].fitness > 0

\* C6 (for percentages summing to at most 1): one generation's evaluation
\* writes the fitness of each genome of the population exactly once.
C6_FitnessWrittenOnce ==
    (ValidPercentages /\ pc = "update_data") =>
        \A i \in DOMAIN population : fitness_writes[population[i]] = 1

\* C9 (for percentages summing to at most 1): the diversity update_data
\* records is the mean absolute difference of consecutive fitness values in
\* sorted order.
C9_DiversityOfSortedFitness ==
    (ValidPercentages /\ pc = "selection" /\ Len(population) >= 2) =>
        display_data.diversity =
            Mean(AbsDiff(FitnessOf(genomes, OrderedByFitness(population, genomes))))

\* C10: when the percentages sum to more than 1, no pool of more than
\* N_INDIVIDUALS genomes reaches Population(next_population), and no
\* population whose size differs from N_INDIVIDUALS is evaluated.
C10_FailFast ==
    ~ValidPercentages =>
        /\ pc = "wrap" => Len(next_population) <= N_INDIVIDUALS
        /\ pc = "evaluation" => Len(population) = N_INDIVIDUALS

\* C4: the stop flag is read once per generation, at its top; after stop()
\* no later generation is evaluated; and the generation during which stop()
\* was called is carried through to its end before the loop exits.
C4_StopAtGenerationBoundary ==
    /\ flag_reads = loop_generation
                    + (IF pc \in {"finish", "done"} /\ loop_generation < N_GENERATION
                       THEN 1 ELSE 0)
    /\ stopped_in # -1 => \A g \in evaluated : g <= stopped_in
    /\ pc = "done" => completed = loop_generation

\* stop() was called inside the first of several generations and the run
\* has ended after finishing that generation and no other.
C4_Witness ==
    /\ pc = "done"
    /\ stopped_in = 1
    /\ stopped_at = "within"
    /\ evaluated = {1}
    /\ completed = 1
    /\ N_GENERATION > 1

(***************************************************************************)
(* Properties of Environment.collides                                      *)
(***************************************************************************)
\* On which side of the line through a and b the point c lies.
Side(a, b, c) == Sign(Cross(Sub(b, a), Sub(c, a)))

\* The segments [p, q] and [s, e] are not parallel and meet in one point.
MeetInOnePoint(p, q, s, e) ==
    /\ Cross(Sub(q, p), Sub(e, s)) # 0
    /\ Side(p, q, s) * Side(p, q, e) <= 0
    /\ Side(s, e, p) * Side(s, e, q) <= 0

\* The events collides() returned for the wall `line`.
EventsOf(line) == {i \in DOMAIN collisions : collisions[i].line = line}

\* C7: an event's jumped_through flag is true exactly when the step meets
\* the wall's collision segment in a point and is strictly longer than the
\* way to that point, that is, when the step does not end on the collision
\* segment's line; and the step (0,0)-(100,0) against the thin wall alone
\* yields exactly one event, with jumped_through true, for every radius.
C7_JumpedThrough ==
    returned =>
        /\ \A i \in DOMAIN collisions :
               LET line == collisions[i].line
               IN  collisions[i].jumped_through <=>
                       /\ MeetInOnePoint(robot_current_center, robot_next_center,
                                         line.col_start, line.col_end)
                       /\ Side(line.col_start, line.col_end, robot_next_center) # 0
        /\ ( /\ environment = <<ThinWall>>
             /\ robot_current_center = <<0, 0>>
             /\ robot_next_center = <<100, 0>> )
           => /\ Len(collisions) = 1
              /\ collisions[1].jumped_through

\* The step (0,0)-(100,0) has been checked against the thin wall alone by
\* a robot whose radius is far smaller than its final distance to the wall.
C7_Witness ==
    /\ returned
    /\ environment = <<ThinWall>>
    /\ robot_current_center = <<0, 0>>
    /\ robot_next_center = <<100, 0>>
    /\ ROBOT_RADIUS = 1
    /\ Len(collisions) = 1
    /\ collisions[1].jumped_through
    /\ collisions[1].extend_intersection = <<100, 0, 2>>

\* The step is parallel to the wall `line` and ends beyond one of the
\* wall's endpoints, outside its span.
ParallelPastEndpoint(line) ==
    /\ line.start # line.end
    /\ robot_current_center # robot_next_center
    /\ Cross(Sub(robot_next_center, robot_current_center), Sub(line.end, line.start)) = 0
    /\ outside_of_line(robot_next_center, line.start, line.end) # None

\* C8 as stated: a step parallel to a wall that ends past one of its
\* endpoints yields no event for that wall, however close it ends.
C8_ParallelSuppressed ==
    returned =>
        \A k \in DOMAIN environment :
            ParallelPastEndpoint(environment[k]) => EventsOf(environment[k]) = {}

\* C8 as amended: such a step yields an event for that wall exactly when it
\* ends closer to the wall, that is to the endpoint it has passed, than
\* ROBOT_RADIUS - EPSILON, and the event's jumped_through is false.  Squared
\* distances between grid points are whole numbers and 2 * ROBOT_RADIUS *
\* EPSILON < 1, so "closer than ROBOT_RADIUS - EPSILON" is "closer than
\* ROBOT_RADIUS" here.
C8_ParallelWithinRadius ==
    returned =>
        \A k \in DOMAIN environment :
            LET line == environment[k]
                passed == outside_of_line(robot_next_center, line.start, line.end)
            IN  ParallelPastEndpoint(line) =>
                    /\ EventsOf(line) # {} <=>
                           distance_point_to_point(robot_next_center, passed)
                               < ROBOT_RADIUS * ROBOT_RADIUS
                    /\ \A i \in EventsOf(line) : ~collisions[i].jumped_through

\* A step parallel to the wall (0,0)-(50,0) has ended past its endpoint
\* within the robot radius, and collides() returned an event for it.
C8_Witness ==
    /\ returned
    /\ Len(environment) = 1
    /\ environment[1].start = <<0, 0>>
    /\ environment[1].end = <<50, 0>>
    /\ robot_current_center = <<50, 1>>
    /\ robot_next_center = <<100, 1>>
    /\ ParallelPastEndpoint(environment[1])
    /\ Len(collisions) = 1
    /\ ~collisions[1].jumped_through

====
